---- MODULE Spec2Model ----
(***************************************************************************)
(* Wallet ledger of the PayFlex backend: the persisted User.walletBalance, *)
(* the Transaction collection, and the request handlers that move money    *)
(* between them (VTpass purchases, NIN verification, transport bookings,   *)
(* test funding, transaction requery, Paystack wallet funding through      *)
(* WalletService, referral bonuses).  Every handler is cut at its await    *)
(* points: one action per database operation or provider call, so that     *)
(* concurrent requests interleave exactly where the event loop lets them.  *)
(* A request that stops between two steps (a crash) is a behaviour that    *)
(* simply takes no further step of that request: every invariant below is  *)
(* checked in all such intermediate states.                                *)
(***************************************************************************)
EXTENDS Integers, Sequences, FiniteSets, TLC

\* ---------------------------------------------------------------- bounds
\* Number of request slots; each slot serves one HTTP request.
MaxReq == 2

Reqs == 1..MaxReq

\* Bound: most Transaction records created in one behaviour.
MaxTx == 2

\* Largest timesUsed a saved profile reaches.
MaxUsed == 2

\* Number of milliseconds the clock moves on while profiles are saved.
MaxTicks == 2

\* ------------------------------------------------------------ input sets
\* Opening wallet balances (the scenarios of the specification use 400 and 1000).
InitBalances == {400, 1000}
\* amount field of a purchase / booking request body.
PurchaseAmounts == {300}
\* amount field of an add-test-funds request body (route validator: > 0).
FundAmounts == {500}
\* References a caller supplies with a request: the idempotency key of a
\* purchase request (a retry repeats it), the reference argument of debitWallet.
RequestIds == {"rq1", "rq2"}

\* Fixed service charge of verifyNIN.
NinServiceCharge == 150

\* ------------------------------------------------------- schema constants
\* transactionSchema.status enum.
StatusEnum == {"pending", "success", "failed"}

\* transactionSchema.type enum.
TypeEnum == {"airtime", "data", "electricity", "tv", "education", "other",
             "nin_verification", "nin_phone_search", "nin_tracking_search",
             "bvn_verification", "bvn_phone_search", "transport_booking",
             "transport_refund", "flight_booking", "flight_refund"}

\* ------------------------------------------------------ provider responses
\* A provider response is [code, status]; NoResponse before the call,
\* ThrownError when the HTTP call rejects (network error, timeout, non-2xx).
NoResponse == [code |-> "none", status |-> "none"]
ThrownError == [code |-> "throw", status |-> "throw"]

\* POST /pay answers of VTpass: code and content.transactions.status.
VtpassResponses == {[code |-> "000", status |-> "delivered"],
                    [code |-> "000", status |-> "pending"],
                    [code |-> "016", status |-> "failed"],
                    ThrownError}

\* POST /nin-verification answers: response.data.status.
NinResponses == {[code |-> "nin", status |-> "success"],
                 [code |-> "nin", status |-> "error"],
                 ThrownError}

\* POST /requery answers of VTpass: code and content.status ("none" when the
\* field is absent; "delivered" is a value outside the Transaction enum).
RequeryResponses == {[code |-> "000", status |-> "none"],
                     [code |-> "000", status |-> "success"],
                     [code |-> "000", status |-> "failed"],
                     [code |-> "000", status |-> "pending"],
                     [code |-> "000", status |-> "delivered"],
                     [code |-> "015", status |-> "none"],
                     ThrownError}

VARIABLES
  walletBalance,   \* persisted User.walletBalance of the wallet owner
  transactions,    \* Transaction collection; the index is the unique reference
  walletTransactions, \* WalletTransaction collection (ledger of WalletService)
  userVersion,     \* number of committed writes of the User document
  userLock,        \* request whose open session transaction wrote the User
                   \* document and has not committed yet (0: none)
  bookings,        \* Booking collection: sequence of [status, amount]
  openingBalance,  \* history: walletBalance of the initial state
  pc,              \* per request: position in its handler
  op,              \* per request: which handler serves it
  amount,          \* per request: amount of the request
  requestId,       \* per request: reference supplied by the caller
  userDoc,         \* per request: walletBalance of the User document it loaded
  snapVersion,     \* per request: userVersion its session transaction read
  txRef,           \* per request: reference of the Transaction it holds (0: none)
  txDoc,           \* per request: status of the Transaction document it loaded
  resp,            \* per request: provider response it received
  outcome,         \* per request: what was answered to the caller
  balanceBefore,   \* history: persisted walletBalance when the request arrived
  payment,         \* Payment record of the wallet funding reference
                   \* [status, amount]; status "none": no record yet
  refunds,         \* history: refunds credited by cancelBooking, in order
                   \* [booking, amount, status of the booking it loaded]
  milestone,       \* per request: req.body.milestone of claimMilestoneReward
  bookingId,       \* per request: req.params.bookingId of cancelBooking
  caller,          \* per request: whose token authenticated it (req.user)
  profiles,        \* PassengerProfile.profiles of the user's document:
                   \* sequence of [phone, lastUsed, timesUsed]
  now,             \* Date.now()
  profileData      \* phone of the profileData of the last addOrUpdateProfile
                   \* call (0: no call yet)

\* The variables of the saved passenger profiles.
profileVars == <<profiles, now, profileData>>

vars == <<walletBalance, transactions, walletTransactions, userVersion, userLock,
          bookings, openingBalance, pc, op, amount, requestId, userDoc, snapVersion,
          txRef, txDoc, resp, outcome, balanceBefore, payment, refunds, milestone,
          bookingId, caller, profiles, now, profileData>>



\* -------------------------------------------------------------- helpers
\* Mongoose document validation of a Transaction on save()/create():
\* enum validators of status and type, required serviceID and phoneNumber.
TransactionValid(doc) ==
  /\ doc.status \in StatusEnum
  /\ doc.type \in TypeEnum
  /\ doc.hasServiceID
  /\ doc.hasPhoneNumber

\* userSchema.walletBalance: { min: 0 }, validated on user.save().
UserValid(balance) == balance >= 0

\* user.save() outside a session: the write of the document's walletBalance.
\* While a session transaction holds an uncommitted write of the same User
\* document, a write outside the transaction waits until it has ended.
SaveUser(balance) ==
  /\ userLock = 0
  /\ walletBalance' = balance
  /\ userVersion' = userVersion + 1

\* Variant of validateWalletBalance that accepts every balance.
validateWalletBalanceAlways(user, amt) == user = user

\* validateWalletBalance: throws 'Insufficient wallet balance' when FALSE.
validateWalletBalance(user, amt) == ~(user < amt)

\* Variant of deductWalletBalance that decrements the stored balance in place
\* ($inc) instead of saving the loaded document: no validator runs.
deductWalletBalanceInPlace(user, amt) ==
  [saved |-> TRUE, balance |-> walletBalance - amt]

\* Variant of deductWalletBalance that takes the amount twice.
deductWalletBalanceTwice(user, amt) ==
  LET nb == user - amt - amt
  IN [saved |-> UserValid(nb), balance |-> nb]

\* deductWalletBalance: user.walletBalance -= amount; await user.save().
\* The save writes the document's own value; it is rejected by the min
\* validator when that value is negative.
deductWalletBalance(user, amt) ==
  LET nb == user - amt
  IN [saved |-> UserValid(nb), balance |-> nb]

\* Variant of isSuccess that takes every answer of the provider for a success.
isSuccessAlways(response) == response.code = response.code

\* makePayment's classification of the provider answer.
isSuccess(response) ==
  /\ response.code = "000"
  /\ (response.status = "delivered" \/ response.status = "successful")

Init ==
  /\ walletBalance \in InitBalances
  /\ openingBalance = walletBalance
  /\ transactions = <<>>
  /\ walletTransactions = <<>>
  /\ userVersion = 0
  /\ userLock = 0
  /\ bookings = <<>>
  /\ pc = [r \in Reqs |-> "idle"]
  /\ op = [r \in Reqs |-> "none"]
  /\ amount = [r \in Reqs |-> 0]
  /\ requestId = [r \in Reqs |-> "none"]
  /\ userDoc = [r \in Reqs |-> 0]
  /\ snapVersion = [r \in Reqs |-> 0]
  /\ txRef = [r \in Reqs |-> 0]
  /\ txDoc = [r \in Reqs |-> "none"]
  /\ resp = [r \in Reqs |-> NoResponse]
  /\ outcome = [r \in Reqs |-> "none"]
  /\ balanceBefore = [r \in Reqs |-> 0]
  /\ payment = [status |-> "none", amount |-> 0]
  /\ refunds = <<>>
  /\ milestone = [r \in Reqs |-> 0]
  /\ bookingId = [r \in Reqs |-> 0]
  /\ caller = [r \in Reqs |-> "owner"]
  /\ profiles = <<>>
  /\ now = 1
  /\ profileData = 0

\* --------------------------------------------------- purchase (buyAirtime)
\* buyAirtime up to the call of makePayment: verifyUserAndPin loads the user
\* and checks the PIN, validateWalletBalance checks the loaded balance.  The
\* handler reads phoneNumber, amount, network and pin from the body; a client
\* reference sent along (rid) is recorded here only to tell retries apart.
BuyStart(r) ==
  /\ pc[r] = "idle"
  /\ Len(transactions) < MaxTx
  /\ \E a \in PurchaseAmounts, pinOk \in BOOLEAN, rid \in RequestIds :
       /\ op' = [op EXCEPT ![r] = "buyAirtime"]
       /\ amount' = [amount EXCEPT ![r] = a]
       /\ requestId' = [requestId EXCEPT ![r] = rid]
       /\ userDoc' = [userDoc EXCEPT ![r] = walletBalance]
       /\ balanceBefore' = [balanceBefore EXCEPT ![r] = walletBalance]
       /\ IF pinOk /\ validateWalletBalance(walletBalance, a)
          THEN /\ pc' = [pc EXCEPT ![r] = "validated"]
               /\ outcome' = outcome
          ELSE /\ pc' = [pc EXCEPT ![r] = "done"]
               /\ outcome' = [outcome EXCEPT ![r] = "rejected"]
  /\ UNCHANGED <<profileVars, refunds, milestone, bookingId, caller,
                 payment, walletBalance, transactions, bookings, openingBalance, txRef, txDoc,
                 resp, userVersion, walletTransactions, userLock, snapVersion>>

\* makePayment: new Transaction({... status: "pending"}) and save().  The
\* reference is generated here and the request_id was generated by buyAirtime
\* (generateRequestId); neither is taken from the request body, so both are
\* fresh values: the position of the new record.
MakePaymentCreate(r) ==
  /\ pc[r] = "validated"
  /\ op[r] = "buyAirtime"
  /\ LET doc == [status |-> "pending", type |-> "airtime", amount |-> amount[r],
                 request_id |-> Len(transactions) + 1, hasServiceID |-> TRUE,
                 hasPhoneNumber |-> TRUE]
     IN /\ TransactionValid(doc)
        /\ transactions' = Append(transactions, doc)
        /\ txRef' = [txRef EXCEPT ![r] = Len(transactions) + 1]
  /\ pc' = [pc EXCEPT ![r] = "created"]
  /\ UNCHANGED <<profileVars, refunds, milestone, bookingId, caller,
                 payment, walletBalance, bookings, openingBalance, op, amount, requestId,
                 userDoc, txDoc, resp, outcome, balanceBefore, userVersion,
                 walletTransactions, userLock, snapVersion>>

\* makePayment: await vtpassApi.post("/pay", payload).
MakePaymentCall(r) ==
  /\ pc[r] = "created"
  /\ op[r] = "buyAirtime"
  /\ \E answer \in VtpassResponses : resp' = [resp EXCEPT ![r] = answer]
  /\ pc' = [pc EXCEPT ![r] = "responded"]
  /\ UNCHANGED <<profileVars, refunds, milestone, bookingId, caller,
                 payment, walletBalance, transactions, bookings, openingBalance, op, amount,
                 requestId, userDoc, txRef, txDoc, outcome, balanceBefore,
                 userVersion, walletTransactions, userLock, snapVersion>>

\* makePayment after the provider call: the status is classified and saved;
\* in the catch branch the record is updated to "failed" and the error is
\* rethrown to buyAirtime, which answers 500.
MakePaymentFinalize(r) ==
  /\ pc[r] = "responded"
  /\ op[r] = "buyAirtime"
  /\ IF resp[r] = ThrownError
     THEN /\ transactions' = [transactions EXCEPT ![txRef[r]].status = "failed"]
          /\ pc' = [pc EXCEPT ![r] = "done"]
          /\ outcome' = [outcome EXCEPT ![r] = "error"]
     ELSE IF isSuccess(resp[r])
     THEN /\ transactions' = [transactions EXCEPT ![txRef[r]].status = "success"]
          /\ pc' = [pc EXCEPT ![r] = "paid"]
          /\ outcome' = outcome
     ELSE /\ transactions' = [transactions EXCEPT ![txRef[r]].status = "failed"]
          /\ pc' = [pc EXCEPT ![r] = "done"]
          /\ outcome' = [outcome EXCEPT ![r] = "failed"]
  /\ UNCHANGED <<profileVars, refunds, milestone, bookingId, caller,
                 payment, walletBalance, bookings, openingBalance, op, amount, requestId,
                 userDoc, txRef, txDoc, resp, balanceBefore, userVersion,
                 walletTransactions, userLock, snapVersion>>

\* buyAirtime after makePayment returned success: deductWalletBalance.
BuyDeduct(r) ==
  /\ pc[r] = "paid"
  /\ op[r] = "buyAirtime"
  /\ LET d == deductWalletBalance(userDoc[r], amount[r])
     IN IF d.saved
        THEN /\ SaveUser(d.balance)
             /\ outcome' = [outcome EXCEPT ![r] = "success"]
        ELSE /\ UNCHANGED <<walletBalance, userVersion>>
             /\ outcome' = [outcome EXCEPT ![r] = "error"]
  /\ pc' = [pc EXCEPT ![r] = "done"]
  /\ UNCHANGED <<profileVars, refunds, milestone, bookingId, caller,
                 payment, transactions, bookings, openingBalance, op, amount, requestId,
                 userDoc, txRef, txDoc, resp, balanceBefore, walletTransactions,
                 userLock, snapVersion>>

\* ------------------------------------------------ NIN verification (verifyNIN)
\* verifyNIN up to createTransaction: validatePinAndBalance loads the user,
\* checks the PIN and checks the loaded balance against the service charge.
NinStart(r) ==
  /\ pc[r] = "idle"
  /\ Len(transactions) < MaxTx
  /\ \E pinOk \in BOOLEAN :
       /\ op' = [op EXCEPT ![r] = "verifyNIN"]
       /\ amount' = [amount EXCEPT ![r] = NinServiceCharge]
       /\ userDoc' = [userDoc EXCEPT ![r] = walletBalance]
       /\ balanceBefore' = [balanceBefore EXCEPT ![r] = walletBalance]
       /\ IF pinOk /\ ~(walletBalance < NinServiceCharge)
          THEN /\ pc' = [pc EXCEPT ![r] = "validated"]
               /\ outcome' = outcome
          ELSE /\ pc' = [pc EXCEPT ![r] = "done"]
               /\ outcome' = [outcome EXCEPT ![r] = "rejected"]
  /\ UNCHANGED <<profileVars, refunds, milestone, bookingId, caller,
                 payment, walletBalance, transactions, bookings, openingBalance, requestId,
                 txRef, txDoc, resp, userVersion, walletTransactions, userLock,
                 snapVersion>>

\* createTransaction: a pending Transaction under a fresh reference.
createTransaction(r) ==
  /\ pc[r] = "validated"
  /\ op[r] = "verifyNIN"
  /\ LET doc == [status |-> "pending", type |-> "nin_verification",
                 amount |-> amount[r], request_id |-> 0,
                 hasServiceID |-> TRUE, hasPhoneNumber |-> TRUE]
     IN /\ TransactionValid(doc)
        /\ transactions' = Append(transactions, doc)
        /\ txRef' = [txRef EXCEPT ![r] = Len(transactions) + 1]
  /\ pc' = [pc EXCEPT ![r] = "created"]
  /\ UNCHANGED <<profileVars, refunds, milestone, bookingId, caller,
                 payment, walletBalance, bookings, openingBalance, op, amount, requestId,
                 userDoc, txDoc, resp, outcome, balanceBefore, userVersion,
                 walletTransactions, userLock, snapVersion>>

\* await verificationApi.post('/nin-verification'); when it throws, the catch
\* block answers the caller and writes nothing.
NinCall(r) ==
  /\ pc[r] = "created"
  /\ op[r] = "verifyNIN"
  /\ \E answer \in NinResponses :
       /\ resp' = [resp EXCEPT ![r] = answer]
       /\ IF answer = ThrownError
          THEN /\ pc' = [pc EXCEPT ![r] = "done"]
               /\ outcome' = [outcome EXCEPT ![r] = "error"]
          ELSE /\ pc' = [pc EXCEPT ![r] = "responded"]
               /\ outcome' = outcome
  /\ UNCHANGED <<profileVars, refunds, milestone, bookingId, caller,
                 payment, walletBalance, transactions, bookings, openingBalance, op, amount,
                 requestId, userDoc, txRef, txDoc, balanceBefore, userVersion,
                 walletTransactions, userLock, snapVersion>>

\* First write after the answer: on status 'success' the wallet write of
\* processSuccessfulVerification (user.walletBalance -= amount; user.save()),
\* otherwise the Transaction is saved as failed.
NinProcess(r) ==
  /\ pc[r] = "responded"
  /\ op[r] = "verifyNIN"
  /\ IF resp[r].status = "success"
     THEN LET nb == userDoc[r] - transactions[txRef[r]].amount
          IN IF UserValid(nb)
             THEN /\ SaveUser(nb)
                  /\ pc' = [pc EXCEPT ![r] = "debited"]
                  /\ UNCHANGED <<transactions, outcome>>
             ELSE /\ pc' = [pc EXCEPT ![r] = "done"]
                  /\ outcome' = [outcome EXCEPT ![r] = "error"]
                  /\ UNCHANGED <<walletBalance, userVersion, transactions>>
     ELSE /\ transactions' = [transactions EXCEPT ![txRef[r]].status = "failed"]
          /\ pc' = [pc EXCEPT ![r] = "done"]
          /\ outcome' = [outcome EXCEPT ![r] = "failed"]
          /\ UNCHANGED <<walletBalance, userVersion>>
  /\ UNCHANGED <<profileVars, refunds, milestone, bookingId, caller,
                 payment, bookings, openingBalance, op, amount, requestId, userDoc, txRef,
                 txDoc, resp, balanceBefore, walletTransactions, userLock,
                 snapVersion>>

\* processSuccessfulVerification, second write: transaction.status = 'success'.
processSuccessfulVerification(r) ==
  /\ pc[r] = "debited"
  /\ op[r] = "verifyNIN"
  /\ transactions' = [transactions EXCEPT ![txRef[r]].status = "success"]
  /\ pc' = [pc EXCEPT ![r] = "done"]
  /\ outcome' = [outcome EXCEPT ![r] = "success"]
  /\ UNCHANGED <<profileVars, refunds, milestone, bookingId, caller,
                 payment, walletBalance, bookings, openingBalance, op, amount, requestId,
                 userDoc, txRef, txDoc, resp, balanceBefore, userVersion,
                 walletTransactions, userLock, snapVersion>>

\* ------------------------------------------- transport booking (createBooking)
\* createBooking up to Booking.create: the user is loaded, the PIN validated
\* and the loaded balance compared with payment.amount.
BookStart(r) ==
  /\ pc[r] = "idle"
  /\ \E a \in PurchaseAmounts, pinOk \in BOOLEAN :
       /\ op' = [op EXCEPT ![r] = "createBooking"]
       /\ amount' = [amount EXCEPT ![r] = a]
       /\ userDoc' = [userDoc EXCEPT ![r] = walletBalance]
       /\ balanceBefore' = [balanceBefore EXCEPT ![r] = walletBalance]
       /\ IF pinOk /\ ~(walletBalance < a)
          THEN /\ pc' = [pc EXCEPT ![r] = "validated"]
               /\ outcome' = outcome
          ELSE /\ pc' = [pc EXCEPT ![r] = "done"]
               /\ outcome' = [outcome EXCEPT ![r] = "rejected"]
  /\ UNCHANGED <<profileVars, refunds, milestone, bookingId, caller,
                 payment, walletBalance, transactions, bookings, openingBalance, requestId,
                 txRef, txDoc, resp, userVersion, walletTransactions, userLock,
                 snapVersion>>

\* Booking.create({ status: 'pending', payment: { amount } }).
BookCreate(r) ==
  /\ pc[r] = "validated"
  /\ op[r] = "createBooking"
  /\ bookings' = Append(bookings, [status |-> "pending", amount |-> amount[r]])
  /\ pc' = [pc EXCEPT ![r] = "booked"]
  /\ UNCHANGED <<profileVars, refunds, milestone, bookingId, caller,
                 payment, walletBalance, transactions, openingBalance, op, amount, requestId,
                 userDoc, txRef, txDoc, resp, outcome, balanceBefore, userVersion,
                 walletTransactions, userLock, snapVersion>>

\* user.walletBalance -= payment.amount; await user.save().
BookDeduct(r) ==
  /\ pc[r] = "booked"
  /\ op[r] = "createBooking"
  /\ LET nb == userDoc[r] - amount[r]
     IN IF UserValid(nb)
        THEN /\ SaveUser(nb)
             /\ pc' = [pc EXCEPT ![r] = "debited"]
             /\ outcome' = outcome
        ELSE /\ UNCHANGED <<walletBalance, userVersion>>
             /\ pc' = [pc EXCEPT ![r] = "done"]
             /\ outcome' = [outcome EXCEPT ![r] = "error"]
  /\ UNCHANGED <<profileVars, refunds, milestone, bookingId, caller,
                 payment, transactions, bookings, openingBalance, op, amount, requestId,
                 userDoc, txRef, txDoc, resp, balanceBefore, walletTransactions,
                 userLock, snapVersion>>

\* Transaction.create({ type: 'transport_booking', status: 'successful', ... })
\* with neither serviceID nor phoneNumber.  The document is validated before it
\* is inserted; a rejected document throws into the catch block, which answers
\* 500.  Only an accepted document lets the handler go on to confirm the booking.
BookTransaction(r) ==
  /\ pc[r] = "debited"
  /\ op[r] = "createBooking"
  /\ LET doc == [status |-> "successful", type |-> "transport_booking",
                 amount |-> amount[r], request_id |-> 0,
                 hasServiceID |-> FALSE, hasPhoneNumber |-> FALSE]
     IN IF TransactionValid(doc)
        THEN /\ transactions' = Append(transactions, doc)
             /\ txRef' = [txRef EXCEPT ![r] = Len(transactions) + 1]
             /\ pc' = [pc EXCEPT ![r] = "recorded"]
             /\ outcome' = outcome
        ELSE /\ UNCHANGED <<transactions, txRef>>
             /\ pc' = [pc EXCEPT ![r] = "done"]
             /\ outcome' = [outcome EXCEPT ![r] = "error"]
  /\ UNCHANGED <<profileVars, refunds, milestone, bookingId, caller,
                 payment, walletBalance, bookings, openingBalance, op, amount, requestId,
                 userDoc, txDoc, resp, balanceBefore, userVersion, walletTransactions,
                 userLock, snapVersion>>

\* ------------------------------------------------ test funding (addTestFunds)
\* User.findById(userId).
FundStart(r) ==
  /\ pc[r] = "idle"
  /\ \E a \in FundAmounts :
       /\ op' = [op EXCEPT ![r] = "addTestFunds"]
       /\ amount' = [amount EXCEPT ![r] = a]
  /\ userDoc' = [userDoc EXCEPT ![r] = walletBalance]
  /\ balanceBefore' = [balanceBefore EXCEPT ![r] = walletBalance]
  /\ pc' = [pc EXCEPT ![r] = "loaded"]
  /\ UNCHANGED <<profileVars, refunds, milestone, bookingId, caller,
                 payment, walletBalance, transactions, bookings, openingBalance, requestId,
                 txRef, txDoc, resp, outcome, userVersion, walletTransactions,
                 userLock, snapVersion>>

\* user.walletBalance = (user.walletBalance || 0) + Number(amount); user.save().
addTestFunds(r) ==
  /\ pc[r] = "loaded"
  /\ op[r] = "addTestFunds"
  /\ SaveUser(userDoc[r] + amount[r])
  /\ pc' = [pc EXCEPT ![r] = "done"]
  /\ outcome' = [outcome EXCEPT ![r] = "success"]
  /\ UNCHANGED <<profileVars, refunds, milestone, bookingId, caller,
                 payment, transactions, bookings, openingBalance, op, amount, requestId,
                 userDoc, txRef, txDoc, resp, balanceBefore, walletTransactions,
                 userLock, snapVersion>>

\* --------------------------------------------- requery (verifyTransaction)
\* req.user set by protect: the owner of the wallet and of every Transaction
\* of this model, or another authenticated user.
Callers == {"owner", "other"}

\* GET /transactions/:reference: Transaction.findOne({ reference, userId });
\* the document is returned to its owner, everyone else is answered 404.
getTransactionByReference(r) ==
  /\ pc[r] = "idle"
  /\ op' = [op EXCEPT ![r] = "getTransactionByReference"]
  /\ balanceBefore' = [balanceBefore EXCEPT ![r] = walletBalance]
  /\ \E who \in Callers, ref \in 1..(Len(transactions) + 1) :
       /\ caller' = [caller EXCEPT ![r] = who]
       /\ IF ref \in DOMAIN transactions /\ who = "owner"
          THEN /\ txRef' = [txRef EXCEPT ![r] = ref]
               /\ txDoc' = [txDoc EXCEPT ![r] = transactions[ref].status]
               /\ outcome' = [outcome EXCEPT ![r] = "success"]
          ELSE /\ UNCHANGED <<txRef, txDoc>>
               /\ outcome' = [outcome EXCEPT ![r] = "failed"]
  /\ pc' = [pc EXCEPT ![r] = "done"]
  /\ UNCHANGED <<profileVars, refunds, milestone, bookingId,
                 payment, walletBalance, transactions, bookings, openingBalance, amount,
                 requestId, userDoc, resp, userVersion, walletTransactions, userLock,
                 snapVersion>>

\* GET /verify-transaction/:reference behind protect: Transaction.findOne({
\* reference }) without a userId condition; an unknown reference answers
\* "Transaction not found".
RequeryStart(r) ==
  /\ pc[r] = "idle"
  /\ op' = [op EXCEPT ![r] = "verifyTransaction"]
  /\ balanceBefore' = [balanceBefore EXCEPT ![r] = walletBalance]
  /\ \E who \in Callers : caller' = [caller EXCEPT ![r] = who]
  /\ \E ref \in 1..(Len(transactions) + 1) :
       IF ref \in DOMAIN transactions
       THEN /\ txRef' = [txRef EXCEPT ![r] = ref]
            /\ txDoc' = [txDoc EXCEPT ![r] = transactions[ref].status]
            /\ pc' = [pc EXCEPT ![r] = "loaded"]
            /\ outcome' = outcome
       ELSE /\ UNCHANGED <<txRef, txDoc>>
            /\ pc' = [pc EXCEPT ![r] = "done"]
            /\ outcome' = [outcome EXCEPT ![r] = "failed"]
  /\ UNCHANGED <<profileVars, refunds, milestone, bookingId,
                 payment, walletBalance, transactions, bookings, openingBalance, amount,
                 requestId, userDoc, resp, userVersion, walletTransactions, userLock,
                 snapVersion>>

\* await vtpassApi.post("/requery"): a thrown error is rethrown to the route, a
\* code other than "000" is answered as a failed verification.
RequeryCall(r) ==
  /\ pc[r] = "loaded"
  /\ op[r] = "verifyTransaction"
  /\ \E answer \in RequeryResponses :
       /\ resp' = [resp EXCEPT ![r] = answer]
       /\ IF answer = ThrownError
          THEN /\ pc' = [pc EXCEPT ![r] = "done"]
               /\ outcome' = [outcome EXCEPT ![r] = "error"]
          ELSE IF answer.code = "000"
          THEN /\ pc' = [pc EXCEPT ![r] = "responded"]
               /\ outcome' = outcome
          ELSE /\ pc' = [pc EXCEPT ![r] = "done"]
               /\ outcome' = [outcome EXCEPT ![r] = "failed"]
  /\ UNCHANGED <<profileVars, refunds, milestone, bookingId, caller,
                 payment, walletBalance, transactions, bookings, openingBalance, op, amount,
                 requestId, userDoc, txRef, txDoc, balanceBefore, userVersion,
                 walletTransactions, userLock, snapVersion>>

\* Variant of requeryStatus that takes an answer without a status for a failure.
requeryStatusDefaultFailed(loaded, answer) ==
  IF answer.status # "none" THEN answer.status ELSE "failed"

\* transaction.status = response.data.content?.status || transaction.status
requeryStatus(loaded, answer) ==
  IF answer.status # "none" THEN answer.status ELSE loaded

\* transaction.save(): the enum validator rejects a status outside the enum
\* (the error is rethrown); an accepted save writes the status only when it
\* differs from the loaded one (only modified paths are written).
verifyTransaction(r) ==
  /\ pc[r] = "responded"
  /\ op[r] = "verifyTransaction"
  /\ LET st == requeryStatus(txDoc[r], resp[r])
     IN IF st \notin StatusEnum
        THEN /\ transactions' = transactions
             /\ outcome' = [outcome EXCEPT ![r] = "error"]
        ELSE /\ transactions' =
                  IF st # txDoc[r]
                  THEN [transactions EXCEPT ![txRef[r]].status = st]
                  ELSE transactions
             /\ outcome' = [outcome EXCEPT ![r] = "success"]
  /\ pc' = [pc EXCEPT ![r] = "done"]
  /\ UNCHANGED <<profileVars, refunds, milestone, bookingId, caller,
                 payment, walletBalance, bookings, openingBalance, op, amount, requestId,
                 userDoc, txRef, txDoc, resp, balanceBefore, userVersion,
                 walletTransactions, userLock, snapVersion>>

\* ------------------------------------------ WalletService.debitWallet
\* session.startTransaction(); User.findById(userId).session(session); the
\* balance check throws 'Insufficient wallet balance' (abort, rethrow).
DebitWalletStart(r) ==
  /\ pc[r] = "idle"
  /\ \E a \in PurchaseAmounts, ref \in RequestIds :
       /\ op' = [op EXCEPT ![r] = "debitWallet"]
       /\ amount' = [amount EXCEPT ![r] = a]
       /\ requestId' = [requestId EXCEPT ![r] = ref]
       /\ IF walletBalance < a
          THEN /\ pc' = [pc EXCEPT ![r] = "done"]
               /\ outcome' = [outcome EXCEPT ![r] = "rejected"]
          ELSE /\ pc' = [pc EXCEPT ![r] = "txnRead"]
               /\ outcome' = outcome
  /\ userDoc' = [userDoc EXCEPT ![r] = walletBalance]
  /\ snapVersion' = [snapVersion EXCEPT ![r] = userVersion]
  /\ balanceBefore' = [balanceBefore EXCEPT ![r] = walletBalance]
  /\ UNCHANGED <<profileVars, refunds, milestone, bookingId, caller,
                 payment, walletBalance, transactions, walletTransactions, userVersion,
                 userLock, bookings, openingBalance, txRef, txDoc, resp>>

\* user.walletBalance = balanceAfter; await user.save({ session }).  The write
\* is staged in the transaction; it meets a write conflict (abort, rethrow)
\* when the document was written after the transaction's snapshot or is held
\* by another open transaction.
DebitWalletSave(r) ==
  /\ pc[r] = "txnRead"
  /\ op[r] = "debitWallet"
  /\ IF userLock = 0 /\ userVersion = snapVersion[r]
        /\ UserValid(userDoc[r] - amount[r])
     THEN /\ userLock' = r
          /\ pc' = [pc EXCEPT ![r] = "txnWrote"]
          /\ outcome' = outcome
     ELSE /\ userLock' = userLock
          /\ pc' = [pc EXCEPT ![r] = "done"]
          /\ outcome' = [outcome EXCEPT ![r] = "error"]
  /\ UNCHANGED <<profileVars, refunds, milestone, bookingId, caller,
                 payment, walletBalance, transactions, walletTransactions, userVersion,
                 bookings, openingBalance, op, amount, requestId, userDoc,
                 snapVersion, txRef, txDoc, resp, balanceBefore>>

\* catch (error) { await session.abortTransaction(); throw error; }: the writes
\* staged in the session are discarded, the committed value stays.
afterAbortKeepsStaged(committed, staged) == staged

afterAbort(committed, staged) == committed

\* new WalletTransaction({...}).save({ session }); session.commitTransaction():
\* the staged balance and the ledger entry become visible together; when the
\* insert is rejected the session is aborted and the error is rethrown.
debitWallet(r) ==
  /\ pc[r] = "txnWrote"
  /\ op[r] = "debitWallet"
  /\ userLock = r
  /\ \E inserted \in BOOLEAN :
       LET balBefore == userDoc[r]
           balAfter == balBefore - amount[r]
       IN IF inserted
          THEN /\ walletBalance' = balAfter
               /\ walletTransactions' = Append(walletTransactions,
                    [type |-> "debit", amount |-> amount[r],
                     balanceBefore |-> balBefore, balanceAfter |-> balAfter,
                     reference |-> requestId[r], status |-> "success"])
               /\ userVersion' = userVersion + 1
               /\ txRef' = [txRef EXCEPT ![r] = Len(walletTransactions) + 1]
               /\ outcome' = [outcome EXCEPT ![r] = "success"]
          ELSE /\ walletBalance' = afterAbort(walletBalance, balAfter)
               /\ outcome' = [outcome EXCEPT ![r] = "error"]
               /\ UNCHANGED <<walletTransactions, userVersion, txRef>>
  /\ userLock' = 0
  /\ pc' = [pc EXCEPT ![r] = "done"]
  /\ UNCHANGED <<profileVars, refunds, milestone, bookingId, caller,
                 payment, transactions, bookings, openingBalance, op, amount, requestId,
                 userDoc, snapVersion, txDoc, resp, balanceBefore>>

\* ------------------------------------------------------- specifications
PurchaseNext ==
  \E r \in Reqs :
    \/ BuyStart(r)
    \/ MakePaymentCreate(r)
    \/ MakePaymentCall(r)
    \/ MakePaymentFinalize(r)
    \/ BuyDeduct(r)
    \/ NinStart(r)
    \/ createTransaction(r)
    \/ NinCall(r)
    \/ NinProcess(r)
    \/ processSuccessfulVerification(r)

OtherNext ==
  \E r \in Reqs :
    \/ BookStart(r)
    \/ BookCreate(r)
    \/ BookDeduct(r)
    \/ BookTransaction(r)
    \/ FundStart(r)
    \/ addTestFunds(r)
    \/ getTransactionByReference(r)
    \/ RequeryStart(r)
    \/ RequeryCall(r)
    \/ verifyTransaction(r)
    \/ DebitWalletStart(r)
    \/ DebitWalletSave(r)
    \/ debitWallet(r)

Next == PurchaseNext \/ OtherNext

\* Requests in flight (between their first step and their answer).
InFlight == {r \in Reqs : pc[r] \notin {"idle", "done"}}

\* Every request handled so far has been answered.
Quiescent == InFlight = {}

\* One request at a time: a request starts only when no other is in flight.
SeqNext == Next /\ Cardinality(InFlight') <= 1

\* Any interleaving of all the handlers.
Spec == Init /\ [][Next]_vars

\* Any interleaving of purchases and NIN verifications only.
PurchaseSpec == Init /\ [][PurchaseNext]_vars

\* All the handlers, one request after the other.
SeqSpec == Init /\ [][SeqNext]_vars

\* ------------------------------------ wallet funding (WalletController)
\* The reference of the one funding payment that is followed.
FundingReference == "WALLET_1"

\* paystackService.verifyTransaction(reference): data.status of the answer,
\* or a thrown error.
PaystackResponses == {"success", "failed", "throw"}

\* fundWallet: Paystack is initialised and new Payment({ status: 'pending' })
\* is saved under a fresh reference.  The handler touches neither the wallet
\* nor the ledger, so it is one step and needs no request slot.
fundWallet ==
  /\ payment.status = "none"
  /\ \E a \in FundAmounts : payment' = [status |-> "pending", amount |-> a]
  /\ UNCHANGED <<profileVars, refunds, milestone, bookingId, caller,
                 walletBalance, transactions, walletTransactions, userVersion,
                 userLock, bookings, openingBalance, pc, op, amount, requestId,
                 userDoc, snapVersion, txRef, txDoc, resp, outcome, balanceBefore>>

\* Variant of paystackConfirmed that accepts every answer.
paystackConfirmedAlways(answer) == TRUE

\* verifyWalletFunding: paystackResponse.data.status !== 'success' is refused.
paystackConfirmed(answer) == answer = "success"

\* verifyWalletFunding: paystackService.verifyTransaction(reference); an answer
\* other than 'success' is a 400, a thrown error a 500.
VerifyFundingStart(r) ==
  /\ pc[r] = "idle"
  /\ op' = [op EXCEPT ![r] = "verifyWalletFunding"]
  /\ requestId' = [requestId EXCEPT ![r] = FundingReference]
  /\ balanceBefore' = [balanceBefore EXCEPT ![r] = walletBalance]
  /\ \E answer \in PaystackResponses :
       /\ resp' = [resp EXCEPT ![r] = [code |-> "paystack", status |-> answer]]
       /\ IF answer # "throw" /\ paystackConfirmed(answer)
          THEN /\ pc' = [pc EXCEPT ![r] = "verified"]
               /\ outcome' = outcome
          ELSE /\ pc' = [pc EXCEPT ![r] = "done"]
               /\ outcome' = [outcome EXCEPT ![r] =
                                IF answer = "throw" THEN "error" ELSE "failed"]
  /\ UNCHANGED <<profileVars, refunds, milestone, bookingId, caller,
                 payment, walletBalance, transactions, walletTransactions,
                 userVersion, userLock, bookings, openingBalance, amount, userDoc,
                 snapVersion, txRef, txDoc>>

\* Payment.findOne({ reference }); payment.status === 'success' answers
\* 'already processed'; no record makes payment.status throw (500).
VerifyFundingLoad(r) ==
  /\ pc[r] = "verified"
  /\ op[r] = "verifyWalletFunding"
  /\ IF payment.status = "none"
     THEN /\ pc' = [pc EXCEPT ![r] = "done"]
          /\ outcome' = [outcome EXCEPT ![r] = "error"]
          /\ UNCHANGED <<txDoc, amount>>
     ELSE IF payment.status = "success"
     THEN /\ pc' = [pc EXCEPT ![r] = "done"]
          /\ outcome' = [outcome EXCEPT ![r] = "rejected"]
          /\ UNCHANGED <<txDoc, amount>>
     ELSE /\ pc' = [pc EXCEPT ![r] = "payLoaded"]
          /\ txDoc' = [txDoc EXCEPT ![r] = payment.status]
          /\ amount' = [amount EXCEPT ![r] = payment.amount]
          /\ outcome' = outcome
  /\ UNCHANGED <<profileVars, refunds, milestone, bookingId, caller,
                 payment, walletBalance, transactions, walletTransactions,
                 userVersion, userLock, bookings, openingBalance, op, requestId,
                 userDoc, snapVersion, txRef, resp, balanceBefore>>

\* creditWallet: session.startTransaction(); User.findById(userId).session().
CreditWalletStart(r) ==
  /\ pc[r] = "payLoaded"
  /\ op[r] = "verifyWalletFunding"
  /\ userDoc' = [userDoc EXCEPT ![r] = walletBalance]
  /\ snapVersion' = [snapVersion EXCEPT ![r] = userVersion]
  /\ pc' = [pc EXCEPT ![r] = "txnRead"]
  /\ UNCHANGED <<profileVars, refunds, milestone, bookingId, caller,
                 payment, walletBalance, transactions, walletTransactions,
                 userVersion, userLock, bookings, openingBalance, op, amount,
                 requestId, txRef, txDoc, resp, outcome, balanceBefore>>

\* Variant of writeConflict that sees the open transactions only, not the
\* writes committed after the snapshot.
writeConflictLockOnly(r) == userLock # 0

\* A write inside a session transaction meets a write conflict when the
\* document is held by another open transaction or was written after the
\* transaction's snapshot.
writeConflict(r) == userLock # 0 \/ userVersion # snapVersion[r]

\* creditWallet: user.walletBalance = balanceAfter; user.save({ session }).
\* A write conflict aborts the transaction and is rethrown (500).
CreditWalletSave(r) ==
  /\ pc[r] = "txnRead"
  /\ op[r] = "verifyWalletFunding"
  /\ IF ~writeConflict(r)
     THEN /\ userLock' = r
          /\ pc' = [pc EXCEPT ![r] = "txnWrote"]
          /\ outcome' = outcome
     ELSE /\ userLock' = userLock
          /\ pc' = [pc EXCEPT ![r] = "done"]
          /\ outcome' = [outcome EXCEPT ![r] = "error"]
  /\ UNCHANGED <<profileVars, refunds, milestone, bookingId, caller,
                 payment, walletBalance, transactions, walletTransactions,
                 userVersion, bookings, openingBalance, op, amount, requestId,
                 userDoc, snapVersion, txRef, txDoc, resp, balanceBefore>>

\* Variant of creditBalanceAfter that is off by one unit.
creditBalanceAfterOff(before, amt) == before + amt + 1

\* creditWallet: balanceAfter = balanceBefore + amount.
creditBalanceAfter(before, amt) == before + amt

\* creditWallet: new WalletTransaction({ type: 'credit', ... }).save({ session })
\* and session.commitTransaction(): the staged balance and the ledger entry
\* become visible together.
creditWallet(r) ==
  /\ pc[r] = "txnWrote"
  /\ op[r] = "verifyWalletFunding"
  /\ userLock = r
  /\ \E inserted \in BOOLEAN :
       LET balBefore == userDoc[r]
           balAfter == creditBalanceAfter(balBefore, amount[r])
       IN IF inserted
          THEN /\ walletBalance' = balAfter
               /\ walletTransactions' = Append(walletTransactions,
                    [type |-> "credit", amount |-> amount[r],
                     balanceBefore |-> balBefore, balanceAfter |-> balAfter,
                     reference |-> requestId[r], status |-> "success"])
               /\ userVersion' = userVersion + 1
               /\ txRef' = [txRef EXCEPT ![r] = Len(walletTransactions) + 1]
               /\ pc' = [pc EXCEPT ![r] = "credited"]
               /\ UNCHANGED outcome
          ELSE /\ walletBalance' = afterAbort(walletBalance, balAfter)
               /\ pc' = [pc EXCEPT ![r] = "done"]
               /\ outcome' = [outcome EXCEPT ![r] = "error"]
               /\ UNCHANGED <<walletTransactions, userVersion, txRef>>
  /\ userLock' = 0
  /\ UNCHANGED <<profileVars, refunds, milestone, bookingId, caller,
                 payment, transactions, bookings, openingBalance, op, amount,
                 requestId, userDoc, snapVersion, txDoc, resp, balanceBefore>>

\* verifyWalletFunding after creditWallet returned: payment.status = 'success';
\* payment.save().
verifyWalletFunding(r) ==
  /\ pc[r] = "credited"
  /\ op[r] = "verifyWalletFunding"
  /\ payment' = [payment EXCEPT !.status = "success"]
  /\ pc' = [pc EXCEPT ![r] = "done"]
  /\ outcome' = [outcome EXCEPT ![r] = "success"]
  /\ UNCHANGED <<profileVars, refunds, milestone, bookingId, caller,
                 walletBalance, transactions, walletTransactions, userVersion,
                 userLock, bookings, openingBalance, op, amount, requestId, userDoc,
                 snapVersion, txRef, txDoc, resp, balanceBefore>>

\* ------------------------------------------ referral (applyReferralCode)
\* referrer.totalReferrals + 1: totalReferrals is not a path of userSchema, so
\* the loaded document has no such value and the sum is NaN (written -1 here).
NaN == -1

\* calculateReferralReward: every comparison with NaN is false.
calculateReferralReward(referralLevel) ==
  IF referralLevel # NaN /\ referralLevel <= 10 THEN 500
  ELSE IF referralLevel # NaN /\ referralLevel <= 30 THEN 750
  ELSE 1000

\* applyReferralCode up to the reward: the new user is loaded (referredBy is
\* not a path of userSchema, so the 'already used' check never answers), the
\* referrer is looked up by code (404 when none is found) and the reward is
\* calculated.  The referrer is the wallet owner.
ReferralStart(r) ==
  /\ pc[r] = "idle"
  /\ op' = [op EXCEPT ![r] = "applyReferralCode"]
  /\ balanceBefore' = [balanceBefore EXCEPT ![r] = walletBalance]
  /\ \E found \in BOOLEAN :
       IF found
       THEN /\ userDoc' = [userDoc EXCEPT ![r] = walletBalance]
            /\ amount' = [amount EXCEPT ![r] = calculateReferralReward(NaN)]
            /\ pc' = [pc EXCEPT ![r] = "found"]
            /\ outcome' = outcome
       ELSE /\ UNCHANGED <<userDoc, amount>>
            /\ pc' = [pc EXCEPT ![r] = "done"]
            /\ outcome' = [outcome EXCEPT ![r] = "rejected"]
  /\ UNCHANGED <<profileVars, refunds, milestone, bookingId, caller,
                 payment, walletBalance, transactions, walletTransactions,
                 userVersion, userLock, bookings, openingBalance, requestId,
                 snapVersion, txRef, txDoc, resp>>

\* referrer.walletBalance = (referrer.walletBalance || 0) + rewardAmount;
\* await referrer.save().
ReferralCredit(r) ==
  /\ pc[r] = "found"
  /\ op[r] = "applyReferralCode"
  /\ SaveUser(userDoc[r] + amount[r])
  /\ pc' = [pc EXCEPT ![r] = "credited"]
  /\ UNCHANGED <<profileVars, refunds, milestone, bookingId, caller,
                 payment, transactions, walletTransactions, userLock, bookings,
                 openingBalance, op, amount, requestId, userDoc, snapVersion, txRef,
                 txDoc, resp, outcome, balanceBefore>>

\* newUser.referredBy = referrer._id; newUser.save(), then Transaction.create({
\* type: 'referral_bonus', status: 'successful', ... }) with neither serviceID
\* nor phoneNumber.  A rejected document throws into the catch block (500).
applyReferralCode(r) ==
  /\ pc[r] = "credited"
  /\ op[r] = "applyReferralCode"
  /\ LET doc == [status |-> "successful", type |-> "referral_bonus",
                 amount |-> amount[r], request_id |-> 0,
                 hasServiceID |-> FALSE, hasPhoneNumber |-> FALSE]
     IN IF TransactionValid(doc)
        THEN /\ transactions' = Append(transactions, doc)
             /\ txRef' = [txRef EXCEPT ![r] = Len(transactions) + 1]
             /\ outcome' = [outcome EXCEPT ![r] = "success"]
        ELSE /\ UNCHANGED <<transactions, txRef>>
             /\ outcome' = [outcome EXCEPT ![r] = "error"]
  /\ pc' = [pc EXCEPT ![r] = "done"]
  /\ UNCHANGED <<profileVars, refunds, milestone, bookingId, caller,
                 payment, walletBalance, walletTransactions, userVersion, userLock,
                 bookings, openingBalance, op, amount, requestId, userDoc,
                 snapVersion, txDoc, resp, balanceBefore>>

\* ------------------------------------------------ cancellation (cancelBooking)
\* Variant of canBeCancelled that accepts every booking.
canBeCancelledAlways(status, inTime) == TRUE

\* bookingSchema.methods.canBeCancelled: the booking is confirmed and departs
\* more than two hours from now (inTime).
canBeCancelled(status, inTime) == status = "confirmed" /\ inTime

\* refundAmount = booking.payment.amount * 0.8.
refundAmount(a) == (a * 8) \div 10

\* Booking.findOne({ _id: bookingId, userId }): 404 when there is none, 400
\* when booking.canBeCancelled() is false.
CancelStart(r) ==
  /\ pc[r] = "idle"
  /\ op' = [op EXCEPT ![r] = "cancelBooking"]
  /\ balanceBefore' = [balanceBefore EXCEPT ![r] = walletBalance]
  /\ \E b \in 1..(Len(bookings) + 1), inTime \in BOOLEAN :
       /\ bookingId' = [bookingId EXCEPT ![r] = b]
       /\ IF b \in DOMAIN bookings /\ canBeCancelled(bookings[b].status, inTime)
          THEN /\ pc' = [pc EXCEPT ![r] = "cancellable"]
               /\ txDoc' = [txDoc EXCEPT ![r] = bookings[b].status]
               /\ amount' = [amount EXCEPT ![r] = refundAmount(bookings[b].amount)]
               /\ outcome' = outcome
          ELSE /\ pc' = [pc EXCEPT ![r] = "done"]
               /\ outcome' = [outcome EXCEPT ![r] = "rejected"]
               /\ UNCHANGED <<txDoc, amount>>
  /\ UNCHANGED <<profileVars, milestone, caller, payment, walletTransactions, userLock, snapVersion, requestId, resp, openingBalance, refunds, walletBalance, userVersion,
                 transactions, bookings, userDoc, txRef>>

\* booking.status = 'cancelled'; booking.cancellation = {...}; booking.save().
CancelSave(r) ==
  /\ bookings' = [bookings EXCEPT ![bookingId[r]].status = "cancelled"]
  /\ pc' = [pc EXCEPT ![r] = "cancelled"]
  /\ UNCHANGED <<profileVars, milestone, caller, payment, walletTransactions, userLock, snapVersion, requestId, resp, openingBalance, refunds, walletBalance, userVersion,
                 transactions, userDoc, txRef, op, balanceBefore, bookingId,
                 txDoc, amount, outcome>>

\* const user = await User.findById(userId).
CancelLoadUser(r) ==
  /\ userDoc' = [userDoc EXCEPT ![r] = walletBalance]
  /\ pc' = [pc EXCEPT ![r] = "refundLoaded"]
  /\ UNCHANGED <<profileVars, milestone, caller, payment, walletTransactions, userLock, snapVersion, requestId, resp, openingBalance, refunds, walletBalance, userVersion,
                 transactions, bookings, txRef, op, balanceBefore, bookingId,
                 txDoc, amount, outcome>>

\* user.walletBalance += refundAmount; await user.save().
CancelRefund(r) ==
  /\ SaveUser(userDoc[r] + amount[r])
  /\ refunds' = Append(refunds, [booking |-> bookingId[r], amount |-> amount[r],
                                 status |-> txDoc[r]])
  /\ pc' = [pc EXCEPT ![r] = "refunded"]
  /\ UNCHANGED <<profileVars, milestone, caller, payment, walletTransactions, userLock, snapVersion, requestId, resp, openingBalance, transactions, bookings, userDoc, txRef,
                 op, balanceBefore, bookingId, txDoc, amount, outcome>>

\* Transaction.create({ type: 'transport_refund', status: 'successful', ... })
\* with neither serviceID nor phoneNumber; a rejected document throws into the
\* catch block (500), an accepted one lets the handler answer.
CancelTransaction(r) ==
  /\ LET doc == [status |-> "successful", type |-> "transport_refund",
                 amount |-> amount[r], request_id |-> 0,
                 hasServiceID |-> FALSE, hasPhoneNumber |-> FALSE]
     IN IF TransactionValid(doc)
        THEN /\ transactions' = Append(transactions, doc)
             /\ txRef' = [txRef EXCEPT ![r] = Len(transactions) + 1]
             /\ outcome' = [outcome EXCEPT ![r] = "success"]
        ELSE /\ UNCHANGED <<transactions, txRef>>
             /\ outcome' = [outcome EXCEPT ![r] = "error"]
  /\ pc' = [pc EXCEPT ![r] = "done"]
  /\ UNCHANGED <<profileVars, milestone, caller, payment, walletTransactions, userLock, snapVersion, requestId, resp, openingBalance, refunds, walletBalance, userVersion,
                 bookings, userDoc, op, balanceBefore, bookingId, txDoc, amount>>

\* cancelBooking: the next step of the handler serving request r.
cancelBooking(r) ==
  IF pc[r] = "idle" THEN CancelStart(r)
  ELSE /\ op[r] = "cancelBooking"
       /\ CASE pc[r] = "cancellable" -> CancelSave(r)
            [] pc[r] = "cancelled" -> CancelLoadUser(r)
            [] pc[r] = "refundLoaded" -> CancelRefund(r)
            [] pc[r] = "refunded" -> CancelTransaction(r)
            [] OTHER -> FALSE

\* ------------------------------------------ milestone (claimMilestoneReward)
\* req.body.milestone: a milestone of the reward table and a value outside it.
MilestoneInputs == {10, 7}

\* user.totalReferrals of a loaded User document: not a path of userSchema,
\* so the document has no such value (undefined).
totalReferrals == NaN

\* user.totalReferrals < milestone: a comparison with undefined is false.
belowMilestone(total, m) == total # NaN /\ total < m

\* milestoneRewards[milestone]; 0 stands for the undefined of an unknown key.
milestoneRewards(m) ==
  CASE m = 10 -> 2000
    [] m = 25 -> 5000
    [] m = 50 -> 15000
    [] m = 100 -> 50000
    [] OTHER -> 0

\* claimMilestoneReward up to the credit: the user is loaded, eligibility is
\* checked, user.claimedMilestones || [] is empty because claimedMilestones is
\* not a path of userSchema, and an unknown milestone is answered 400.
MilestoneStart(r) ==
  /\ pc[r] = "idle"
  /\ op' = [op EXCEPT ![r] = "claimMilestoneReward"]
  /\ balanceBefore' = [balanceBefore EXCEPT ![r] = walletBalance]
  /\ userDoc' = [userDoc EXCEPT ![r] = walletBalance]
  /\ \E m \in MilestoneInputs :
       /\ milestone' = [milestone EXCEPT ![r] = m]
       /\ IF belowMilestone(totalReferrals, m) \/ milestoneRewards(m) = 0
          THEN /\ pc' = [pc EXCEPT ![r] = "done"]
               /\ outcome' = [outcome EXCEPT ![r] = "rejected"]
               /\ UNCHANGED amount
          ELSE /\ pc' = [pc EXCEPT ![r] = "eligible"]
               /\ amount' = [amount EXCEPT ![r] = milestoneRewards(m)]
               /\ outcome' = outcome
  /\ UNCHANGED <<profileVars, refunds, bookingId, caller,
                 payment, walletBalance, transactions, walletTransactions,
                 userVersion, userLock, bookings, openingBalance, requestId,
                 snapVersion, txRef, txDoc, resp>>

\* user.walletBalance = (user.walletBalance || 0) + rewardAmount;
\* user.claimedMilestones = [...]; await user.save().
MilestoneCredit(r) ==
  /\ pc[r] = "eligible"
  /\ op[r] = "claimMilestoneReward"
  /\ SaveUser(userDoc[r] + amount[r])
  /\ pc' = [pc EXCEPT ![r] = "credited"]
  /\ UNCHANGED <<profileVars, refunds, milestone, bookingId, caller,
                 payment, transactions, walletTransactions, userLock, bookings,
                 openingBalance, op, amount, requestId, userDoc, snapVersion, txRef,
                 txDoc, resp, outcome, balanceBefore>>

\* Transaction.create({ type: 'referral_bonus', status: 'successful', ... })
\* with neither serviceID nor phoneNumber.  A rejected document throws into
\* the catch block (500).
claimMilestoneReward(r) ==
  /\ pc[r] = "credited"
  /\ op[r] = "claimMilestoneReward"
  /\ LET doc == [status |-> "successful", type |-> "referral_bonus",
                 amount |-> amount[r], request_id |-> 0,
                 hasServiceID |-> FALSE, hasPhoneNumber |-> FALSE]
     IN IF TransactionValid(doc)
        THEN /\ transactions' = Append(transactions, doc)
             /\ txRef' = [txRef EXCEPT ![r] = Len(transactions) + 1]
             /\ outcome' = [outcome EXCEPT ![r] = "success"]
        ELSE /\ UNCHANGED <<transactions, txRef>>
             /\ outcome' = [outcome EXCEPT ![r] = "error"]
  /\ pc' = [pc EXCEPT ![r] = "done"]
  /\ UNCHANGED <<profileVars, refunds, milestone, bookingId, caller,
                 payment, walletBalance, walletTransactions, userVersion, userLock,
                 bookings, openingBalance, op, amount, requestId, userDoc,
                 snapVersion, txDoc, resp, balanceBefore>>

\* ------------------------------ saved passengers (PassengerProfile model)
\* if (this.profiles.length > 10) this.profiles = this.profiles.slice(0, 10).
ProfileLimit == 10

\* profileData.phone of a call: the first and the last saved passenger of a
\* full document and two passengers that are not saved in it.
PhoneInputs == {1, ProfileLimit, ProfileLimit + 1, ProfileLimit + 2}

\* A document left by n calls with the phones 1..n: all within the same
\* millisecond (tied), or one millisecond apart with phone 1 the latest.
SavedProfiles(n, tied) ==
  [i \in 1..n |-> [phone |-> i,
                   lastUsed |-> IF tied THEN ProfileLimit
                                ELSE ProfileLimit + 1 - i,
                   timesUsed |-> 1]]

\* this.profiles.findIndex((p) => p.phone === profileData.phone); 0 stands
\* for -1.
findIndex(list, phone) ==
  IF \E i \in DOMAIN list : list[i].phone = phone
  THEN CHOOSE i \in DOMAIN list :
         /\ list[i].phone = phone
         /\ \A j \in 1..(i - 1) : list[j].phone # phone
  ELSE 0

RECURSIVE sortByLastUsed(_)
\* this.profiles.sort((a, b) => b.lastUsed - a.lastUsed): Array.prototype.sort
\* is stable, so profiles with equal lastUsed keep their order.
sortByLastUsed(list) ==
  IF list = <<>> THEN <<>>
  ELSE LET p == list[Len(list)]
           front == sortByLastUsed(SubSeq(list, 1, Len(list) - 1))
           k == Cardinality({i \in DOMAIN front : front[i].lastUsed >= p.lastUsed})
       IN SubSeq(front, 1, k) \o <<p>> \o SubSeq(front, k + 1, Len(front))

\* passengerProfileSchema.methods.addOrUpdateProfile(profileData).
addOrUpdateProfile ==
  \E phone \in PhoneInputs :
    LET existingIndex == findIndex(profiles, phone)
        updated ==
          IF existingIndex # 0
          THEN [profiles EXCEPT ![existingIndex] =
                  [phone |-> phone, lastUsed |-> now,
                   timesUsed |-> profiles[existingIndex].timesUsed + 1]]
          ELSE Append(profiles, [phone |-> phone, lastUsed |-> now, timesUsed |-> 1])
        sorted == sortByLastUsed(updated)
    IN /\ existingIndex # 0 => profiles[existingIndex].timesUsed < MaxUsed
       /\ profiles' = IF Len(sorted) > ProfileLimit
                      THEN SubSeq(sorted, 1, ProfileLimit)
                      ELSE sorted
       /\ profileData' = phone
       /\ UNCHANGED <<now, refunds, milestone, bookingId, caller, payment,
                      walletBalance, transactions, walletTransactions, userVersion,
                      userLock, bookings, openingBalance, pc, op, amount, requestId,
                      userDoc, snapVersion, txRef, txDoc, resp, outcome,
                      balanceBefore>>

\* Date.now() moves on by a millisecond.
Tick ==
  /\ now < ProfileLimit + MaxTicks
  /\ now' = now + 1
  /\ UNCHANGED <<profiles, profileData, refunds, milestone, bookingId, caller,
                 payment, walletBalance, transactions, walletTransactions,
                 userVersion, userLock, bookings, openingBalance, pc, op, amount,
                 requestId, userDoc, snapVersion, txRef, txDoc, resp, outcome,
                 balanceBefore>>

\* The document of a user before the calls that are followed: new, or left
\* with one profile less than the limit, or full.
ProfileInit ==
  /\ walletBalance \in InitBalances
  /\ openingBalance = walletBalance
  /\ transactions = <<>>
  /\ walletTransactions = <<>>
  /\ userVersion = 0
  /\ userLock = 0
  /\ bookings = <<>>
  /\ pc = [r \in Reqs |-> "idle"]
  /\ op = [r \in Reqs |-> "none"]
  /\ amount = [r \in Reqs |-> 0]
  /\ requestId = [r \in Reqs |-> "none"]
  /\ userDoc = [r \in Reqs |-> 0]
  /\ snapVersion = [r \in Reqs |-> 0]
  /\ txRef = [r \in Reqs |-> 0]
  /\ txDoc = [r \in Reqs |-> "none"]
  /\ resp = [r \in Reqs |-> NoResponse]
  /\ outcome = [r \in Reqs |-> "none"]
  /\ balanceBefore = [r \in Reqs |-> 0]
  /\ payment = [status |-> "none", amount |-> 0]
  /\ refunds = <<>>
  /\ milestone = [r \in Reqs |-> 0]
  /\ bookingId = [r \in Reqs |-> 0]
  /\ caller = [r \in Reqs |-> "owner"]
  /\ \E n \in {0, ProfileLimit - 1, ProfileLimit}, tied \in BOOLEAN :
       profiles = SavedProfiles(n, tied)
  /\ now = ProfileLimit
  /\ profileData = 0

ProfileNext == addOrUpdateProfile \/ Tick

\* Any sequence of addOrUpdateProfile calls on one user's document.
ProfileSpec == ProfileInit /\ [][ProfileNext]_vars

\* ------------------------------------------------ further specifications
\* A request slot whose request has been answered serves the next request.
Recycle(r) ==
  /\ pc[r] = "done"
  /\ pc' = [pc EXCEPT ![r] = "idle"]
  /\ op' = [op EXCEPT ![r] = "none"]
  /\ amount' = [amount EXCEPT ![r] = 0]
  /\ requestId' = [requestId EXCEPT ![r] = "none"]
  /\ userDoc' = [userDoc EXCEPT ![r] = 0]
  /\ snapVersion' = [snapVersion EXCEPT ![r] = 0]
  /\ txRef' = [txRef EXCEPT ![r] = 0]
  /\ txDoc' = [txDoc EXCEPT ![r] = "none"]
  /\ resp' = [resp EXCEPT ![r] = NoResponse]
  /\ outcome' = [outcome EXCEPT ![r] = "none"]
  /\ balanceBefore' = [balanceBefore EXCEPT ![r] = 0]
  /\ milestone' = [milestone EXCEPT ![r] = 0]
  /\ bookingId' = [bookingId EXCEPT ![r] = 0]
  /\ caller' = [caller EXCEPT ![r] = "owner"]
  /\ UNCHANGED <<profileVars, refunds,
                 payment, walletBalance, transactions, walletTransactions,
                 userVersion, userLock, bookings, openingBalance>>

RequeryNext ==
  \E r \in Reqs :
    \/ RequeryStart(r)
    \/ RequeryCall(r)
    \/ verifyTransaction(r)

NinNext ==
  \E r \in Reqs :
    \/ NinStart(r)
    \/ createTransaction(r)
    \/ NinCall(r)
    \/ NinProcess(r)
    \/ processSuccessfulVerification(r)

\* NIN verifications and requeries, one request at a time, without end.
ReconcileNext ==
  /\ \/ NinNext
     \/ RequeryNext
     \/ \E r \in Reqs : Recycle(r)
  /\ Cardinality(InFlight') <= 1

\* A requery is started for a Transaction that is pending.
ReconcilePending ==
  /\ ReconcileNext
  /\ \E r \in Reqs : /\ pc[r] = "idle"
                     /\ pc'[r] = "loaded"
                     /\ transactions[txRef'[r]].status = "pending"

\* The event loop runs every continuation of a request in flight and frees
\* the slot of an answered one; requeries of pending Transactions are
\* scheduled again and again.
ReconcileSpec ==
  /\ Init
  /\ [][ReconcileNext]_vars
  /\ \A r \in Reqs : WF_vars(ReconcileNext /\ pc[r] # "idle" /\ pc'[r] # pc[r])
  /\ SF_vars(ReconcilePending)

\* WalletController and WalletService only, any interleaving.
WalletNext ==
  \/ fundWallet
  \/ \E r \in Reqs :
       \/ VerifyFundingStart(r)
       \/ VerifyFundingLoad(r)
       \/ CreditWalletStart(r)
       \/ CreditWalletSave(r)
       \/ creditWallet(r)
       \/ verifyWalletFunding(r)
       \/ DebitWalletStart(r)
       \/ DebitWalletSave(r)
       \/ debitWallet(r)

WalletSpec == Init /\ [][WalletNext]_vars

ReferralNext ==
  \E r \in Reqs :
    \/ ReferralStart(r)
    \/ ReferralCredit(r)
    \/ applyReferralCode(r)
    \/ MilestoneStart(r)
    \/ MilestoneCredit(r)
    \/ claimMilestoneReward(r)

\* Bookings and cancellations in any interleaving, request after request.
BookingNext ==
  \E r \in Reqs :
    \/ BookStart(r)
    \/ BookCreate(r)
    \/ BookDeduct(r)
    \/ BookTransaction(r)
    \/ cancelBooking(r)
    \/ Recycle(r)

BookingSpec == Init /\ [][BookingNext]_vars

\* The handlers that credit the wallet, one request at a time.
CreditNext ==
  /\ \/ ReferralNext
     \/ WalletNext
     \/ \E r \in Reqs : FundStart(r) \/ addTestFunds(r)
  /\ Cardinality(InFlight') <= 1

CreditSpec == Init /\ [][CreditNext]_vars

\* =====================================================================
\* Properties
\* =====================================================================

Abs(x) == IF x < 0 THEN -x ELSE x

RECURSIVE SumAmounts(_, _)
\* Sum of the amounts of the transactions of sequence txs whose index is in S.
SumAmounts(txs, S) ==
  IF S = {} THEN 0
  ELSE LET i == CHOOSE j \in S : TRUE
       IN txs[i].amount + SumAmounts(txs, S \ {i})

\* Transaction types that add to the wallet; every other type is a debit.
CreditTypes == {"transport_refund", "flight_refund", "referral_bonus"}

SuccessDebits == {i \in DOMAIN transactions :
                    transactions[i].status = "success"
                    /\ transactions[i].type \notin CreditTypes}

SuccessCredits == {i \in DOMAIN transactions :
                     transactions[i].status = "success"
                     /\ transactions[i].type \in CreditTypes}

\* Classification of a provider answer by the provider's documented markers.
ConfirmedSuccess(response) ==
  response \in {[code |-> "000", status |-> "delivered"],
                [code |-> "nin", status |-> "success"]}

ConfirmedFailure(response) ==
  response \in {[code |-> "016", status |-> "failed"],
                [code |-> "nin", status |-> "error"]}

PurchaseOps == {"buyAirtime", "verifyNIN"}

\* C1 (conservation): once every request has been answered, walletBalance
\* equals the opening balance plus the amounts of the success credit
\* transactions minus the amounts of the success debit transactions; pending
\* and failed transactions count for nothing.
C1_Conservation ==
  Quiescent =>
    walletBalance = openingBalance
                    + SumAmounts(transactions, SuccessCredits)
                    - SumAmounts(transactions, SuccessDebits)

\* The request that takes the step holds, after it, a persisted ledger entry
\* (Transaction, or WalletTransaction for WalletService) of amount d.
HoldsLedgerEntry(r, d) ==
  IF op'[r] = "debitWallet"
  THEN /\ txRef'[r] \in DOMAIN walletTransactions'
       /\ walletTransactions'[txRef'[r]].amount = d
  ELSE /\ txRef'[r] \in DOMAIN transactions'
       /\ transactions'[txRef'[r]].amount = d

\* C2 (atomic pairing): every step that changes walletBalance is taken by a
\* request that holds a persisted ledger entry for the amount of the change.
C2_AtomicPairing ==
  [][walletBalance' # walletBalance =>
       \E r \in Reqs : /\ pc'[r] # pc[r]
                       /\ HoldsLedgerEntry(r, Abs(walletBalance' - walletBalance))]_vars

\* C3 (concurrent debits): when all the requests served were purchases of the
\* same amount a, at most floor(openingBalance / a) of them ended as success
\* debits.
C3_ConcurrentDebits ==
  \A a \in PurchaseAmounts :
    (/\ Quiescent
     /\ \A r \in Reqs : pc[r] = "done" => (op[r] = "buyAirtime" /\ amount[r] = a))
    => Cardinality(SuccessDebits) <= openingBalance \div a

\* C4 (no negative balance): the persisted walletBalance is never negative.
C4_NoNegativeBalance == walletBalance >= 0

\* C4 witness: two debits whose amounts sum to more than the opening balance
\* have both been written, and the balance is still not negative.
C4_Witness ==
  \E r1, r2 \in Reqs :
    /\ r1 # r2
    /\ pc[r1] = "done" /\ pc[r2] = "done"
    /\ outcome[r1] = "success" /\ outcome[r2] = "success"
    /\ op[r1] \in {"buyAirtime", "verifyNIN", "debitWallet"}
    /\ op[r2] \in {"buyAirtime", "verifyNIN", "createBooking", "debitWallet"}
    /\ amount[r1] + amount[r2] > openingBalance
    /\ walletBalance >= 0

\* C5 (idempotency): two purchase requests that carry the same client
\* reference leave one Transaction record between them.
C5_Idempotency ==
  \A r1, r2 \in Reqs :
    (/\ r1 # r2
     /\ op[r1] = "buyAirtime" /\ op[r2] = "buyAirtime"
     /\ requestId[r1] = requestId[r2]
     /\ txRef[r1] # 0 /\ txRef[r2] # 0)
    => txRef[r1] = txRef[r2]

\* C6 (indeterminate safety): the Transaction of a request whose provider call
\* threw is still pending (no requery runs under PurchaseSpec, so only the
\* request itself can have written it).
C6_IndeterminateStaysPending ==
  \A r \in Reqs :
    (op[r] \in PurchaseOps /\ resp[r] = ThrownError)
    => transactions[txRef[r]].status = "pending"

\* C7 (one-way status): the status of a Transaction stays inside the enum and,
\* once success or failed, never changes again.
C7_StatusOneWay ==
  [][\A i \in DOMAIN transactions :
       /\ transactions'[i].status \in StatusEnum
       /\ transactions[i].status \in {"success", "failed"}
            => transactions'[i].status = transactions[i].status]_vars

\* C8 (reserve before provider): while a debit Transaction is pending, and from
\* the moment the provider has been called for a request, the wallet balance
\* already excludes the amount.
C8_ReserveBeforeProvider ==
  /\ \A i \in DOMAIN transactions :
       transactions[i].status = "pending"
         => walletBalance <= openingBalance - transactions[i].amount
  /\ \A r \in Reqs :
       (op[r] \in PurchaseOps /\ resp[r] # NoResponse)
         => walletBalance <= openingBalance - amount[r]

\* The step with which request r is answered.
Answered(r) == pc[r] # "done" /\ pc'[r] = "done"

\* C9 (failed debit): a purchase whose provider answer is an explicit failure
\* is answered with its Transaction failed and with walletBalance equal to its
\* value when the request arrived.
C9_FailedDebitRestores ==
  [][\A r \in Reqs :
       (Answered(r) /\ op[r] \in PurchaseOps /\ ConfirmedFailure(resp'[r]))
       => /\ transactions'[txRef[r]].status = "failed"
          /\ walletBalance' = balanceBefore[r]]_vars

\* C9 witness: balance 1000, debit 300, explicit failure: balance 1000,
\* Transaction failed.
C9_Witness ==
  \E r \in Reqs :
    /\ pc[r] = "done" /\ op[r] = "buyAirtime" /\ amount[r] = 300
    /\ ConfirmedFailure(resp[r])
    /\ balanceBefore[r] = 1000 /\ walletBalance = 1000
    /\ transactions[txRef[r]].status = "failed"

Ambiguous(response) ==
  /\ response \notin {NoResponse, ThrownError}
  /\ ~ConfirmedSuccess(response)
  /\ ~ConfirmedFailure(response)

\* C11 (ambiguous answers are not guessed): a purchase answered after an
\* ambiguous provider answer leaves its Transaction pending and tells the
\* caller neither success nor failure.
C11_AmbiguousStaysPending ==
  \A r \in Reqs :
    (op[r] \in PurchaseOps /\ pc[r] = "done" /\ Ambiguous(resp[r]))
    => /\ transactions[txRef[r]].status = "pending"
       /\ outcome[r] \notin {"success", "failed"}

\* C12 (no abandoned pending): under fair scheduling of the handlers and of
\* the requery of pending Transactions, every Transaction that is pending
\* eventually is success or failed.
C12_NoAbandonedPending ==
  \A i \in 1..MaxTx :
    (i \in DOMAIN transactions /\ transactions[i].status = "pending")
      ~> (i \in DOMAIN transactions
          /\ transactions[i].status \in {"success", "failed"})

\* Success debit transactions of a Transaction collection.
DebitsOf(txs) == {i \in DOMAIN txs : txs[i].status = "success"
                                     /\ txs[i].type \notin CreditTypes}

\* Request r's verifyTransaction writes its answer over a Transaction that it
\* loaded with status st.
RequeryResolves(r, st) ==
  /\ op[r] = "verifyTransaction"
  /\ pc[r] = "responded" /\ pc'[r] = "done"
  /\ txDoc[r] = st
  /\ transactions[txRef[r]].status = st

\* C13 (reconciliation settles money): when a requery resolves a pending debit
\* to success or failed, the wallet balance after the step accounts for every
\* success debit, the resolved one included, and for no failed one
\* (1000 / 150: success -> 850, failed -> 1000).
C13_ReconciliationSettlesMoney ==
  [][\A r \in Reqs :
       (/\ RequeryResolves(r, "pending")
        /\ transactions'[txRef[r]].status \in {"success", "failed"})
       => walletBalance' = openingBalance
                           - SumAmounts(transactions', DebitsOf(transactions'))]_vars

\* References under which WalletService is called.
LedgerReferences == {FundingReference} \cup RequestIds

\* Credit entries of the WalletTransaction ledger that carry reference ref.
CreditsOf(ref) == {i \in DOMAIN walletTransactions :
                     /\ walletTransactions[i].type = "credit"
                     /\ walletTransactions[i].reference = ref}

\* C14 (credit once per reference): whatever the number and interleaving of
\* verifyWalletFunding calls, at most one credit entry exists per reference.
C14_CreditOncePerReference ==
  \A ref \in LedgerReferences : Cardinality(CreditsOf(ref)) <= 1

\* C15 (credit success): a referral bonus that has been credited to the
\* referrer's wallet is answered as a success, with walletBalance equal to the
\* balance before plus the bonus and with a Transaction of status success,
\* type referral_bonus and the amount of the bonus.
C15_CreditRecorded ==
  [][\A r \in Reqs :
       (Answered(r) /\ op[r] = "applyReferralCode" /\ pc[r] = "credited")
       => /\ outcome'[r] = "success"
          /\ walletBalance' = balanceBefore[r] + amount[r]
          /\ txRef'[r] \in DOMAIN transactions'
          /\ transactions'[txRef'[r]].status = "success"
          /\ transactions'[txRef'[r]].type = "referral_bonus"
          /\ transactions'[txRef'[r]].amount = amount[r]]_vars

\* C16 (reference uniqueness): no two entries of the WalletTransaction ledger
\* share a reference.  (References of Transaction records are their positions
\* in the collection: the unique index of transactionSchema.reference.)
C16_ReferenceUnique ==
  \A i, j \in DOMAIN walletTransactions :
    i # j => walletTransactions[i].reference # walletTransactions[j].reference

C18_LedgerArithmetic ==
  [][Len(walletTransactions') > Len(walletTransactions) =>
       LET e == walletTransactions'[Len(walletTransactions')]
       IN /\ e.type = "credit" => e.balanceAfter - e.balanceBefore = e.amount
          /\ e.type = "debit" => e.balanceAfter - e.balanceBefore = -e.amount
          /\ e.type \in {"credit", "debit"}
          /\ walletBalance' = e.balanceAfter]_vars

\* C18 witness: a credit of 500 and a debit of 300 have both been committed.
C18_Witness ==
  \E i, j \in DOMAIN walletTransactions :
    /\ walletTransactions[i].type = "credit" /\ walletTransactions[i].amount = 500
    /\ walletTransactions[j].type = "debit" /\ walletTransactions[j].amount = 300
    /\ walletBalance = openingBalance + 200

\* C19 (linearized history): in commit order, the first entry starts from the
\* opening balance, each entry starts from the balance the previous one left,
\* and the last entry leaves the current walletBalance.
C19_LinearizedHistory ==
  /\ \A i \in DOMAIN walletTransactions :
       walletTransactions[i].balanceBefore =
         IF i = 1 THEN openingBalance ELSE walletTransactions[i - 1].balanceAfter
  /\ walletTransactions # <<>> =>
       walletTransactions[Len(walletTransactions)].balanceAfter = walletBalance

\* C19 witness: two calls read the same balance, one met the write conflict
\* and the other committed.
C19_Witness ==
  \E r1, r2 \in Reqs :
    /\ r1 # r2
    /\ pc[r1] = "done" /\ outcome[r1] = "error"
    /\ op[r1] \in {"debitWallet", "verifyWalletFunding"}
    /\ snapVersion[r1] = snapVersion[r2]
    /\ userDoc[r1] = userDoc[r2] /\ userDoc[r1] = openingBalance
    /\ txRef[r2] \in DOMAIN walletTransactions
    /\ op[r2] \in {"debitWallet", "verifyWalletFunding"}
    /\ walletTransactions[txRef[r2]].balanceAfter = walletBalance

\* C20 (reconciliation is idempotent): a verifyTransaction call for a
\* Transaction that is already success or failed changes neither the
\* Transaction collection nor the wallet balance.
C20_RequeryIdempotent ==
  [][\A r \in Reqs :
       (RequeryResolves(r, "success") \/ RequeryResolves(r, "failed"))
       => /\ transactions' = transactions
          /\ walletBalance' = walletBalance]_vars

\* A requery answer that does not say how the transaction ended: a thrown
\* error, a code other than "000", no content.status, or status pending.
UnknownAnswer(answer) ==
  \/ answer = ThrownError
  \/ answer.code # "000"
  \/ answer.status \in {"none", "pending"}

WalletCallFails(r) ==
  /\ op[r] \in {"verifyWalletFunding", "debitWallet"}
  /\ pc[r] \in {"txnRead", "txnWrote"}
  /\ pc'[r] = "done" /\ outcome'[r] = "error"

\* C22 (all or nothing): a creditWallet or debitWallet call that fails (balance
\* below the amount, user save rejected, ledger insert rejected) ends its
\* session and leaves walletBalance and the WalletTransaction collection as
\* they were; the balance changes only in the step that commits exactly one
\* new WalletTransaction, and a call that commits does both.
C22_AllOrNothing ==
  [][/\ \A r \in Reqs :
          WalletCallFails(r) =>
            /\ walletBalance' = walletBalance
            /\ walletTransactions' = walletTransactions
            /\ userLock' # r
     /\ (walletBalance' # walletBalance) <=>
          (walletTransactions' # walletTransactions)
     /\ walletTransactions' # walletTransactions =>
          /\ Len(walletTransactions') = Len(walletTransactions) + 1
          /\ SubSeq(walletTransactions', 1, Len(walletTransactions))
               = walletTransactions
     /\ \A r \in Reqs :
          (/\ pc[r] = "txnWrote"
           /\ \/ pc'[r] = "credited"
              \/ pc'[r] = "done" /\ outcome'[r] = "success")
          => /\ Len(walletTransactions') = Len(walletTransactions) + 1
             /\ walletBalance' # walletBalance
             /\ userLock' = 0]_vars

\* C22 witness: a debitWallet call that had enough balance and met no write
\* conflict was aborted at the ledger insert, and neither the balance nor the
\* ledger moved.
C22_Witness ==
  \E r \in Reqs :
    /\ op[r] = "debitWallet" /\ pc[r] = "done" /\ outcome[r] = "error"
    /\ userDoc[r] >= amount[r]
    /\ snapVersion[r] = userVersion
    /\ walletBalance = openingBalance
    /\ walletTransactions = <<>>

\* C24 (funding credited only on provider confirmation): a verifyWalletFunding
\* request goes past the verification only with the Paystack answer 'success',
\* the entry it commits credits the amount of the stored Payment under the
\* funding reference, and the Payment is marked success only once a credit for
\* that reference is committed.
C24_CreditOnConfirmation ==
  /\ \A r \in Reqs :
       op[r] = "verifyWalletFunding" =>
         /\ (pc[r] \notin {"idle", "done"} \/ outcome[r] = "success" \/ txRef[r] # 0)
              => resp[r] = [code |-> "paystack", status |-> "success"]
         /\ txRef[r] # 0 =>
              /\ walletTransactions[txRef[r]].type = "credit"
              /\ walletTransactions[txRef[r]].amount = payment.amount
              /\ walletTransactions[txRef[r]].reference = FundingReference
              /\ walletTransactions[txRef[r]].balanceAfter
                   = walletTransactions[txRef[r]].balanceBefore + payment.amount
  /\ \A i \in DOMAIN walletTransactions :
       walletTransactions[i].type = "credit" =>
         \E r \in Reqs : op[r] = "verifyWalletFunding" /\ txRef[r] = i
  /\ payment.status = "success" =>
       \E i \in DOMAIN walletTransactions :
         /\ walletTransactions[i].type = "credit"
         /\ walletTransactions[i].reference = FundingReference

\* C24 witness: one verification was refused on a 'failed' answer and credited
\* nothing, another was confirmed, credited the Payment amount and marked the
\* Payment success.
C24_Witness ==
  \E r1, r2 \in Reqs :
    /\ op[r1] = "verifyWalletFunding" /\ pc[r1] = "done"
    /\ resp[r1] = [code |-> "paystack", status |-> "failed"] /\ txRef[r1] = 0
    /\ op[r2] = "verifyWalletFunding" /\ pc[r2] = "done"
    /\ outcome[r2] = "success" /\ payment.status = "success"
    /\ walletBalance = openingBalance + payment.amount

\* The applyReferralCode requests of the new user that credited the referrer.
ReferralCredits ==
  {r \in Reqs : /\ op[r] = "applyReferralCode"
                /\ pc[r] \in {"credited", "done"}
                /\ outcome[r] # "rejected"}

\* C25 (one referral reward per referred user): over all applyReferralCode
\* calls of the same new user, the referrer is credited at most once.
C25_ReferralOnce ==
  /\ Cardinality(ReferralCredits) <= 1
  /\ (\A r \in Reqs : op[r] \in {"none", "applyReferralCode"})
       => walletBalance <= openingBalance + calculateReferralReward(NaN)

\* C27 (transaction ownership): a request that was answered with a
\* Transaction (getTransactionByReference), or whose requery wrote the status
\* of a Transaction and returned it (verifyTransaction answered with code
\* "000"), was made by the owner of that Transaction.
C27_Ownership ==
  \A r \in Reqs :
    (/\ pc[r] = "done" /\ txRef[r] # 0
     /\ \/ op[r] = "getTransactionByReference"
        \/ op[r] = "verifyTransaction" /\ resp[r].code = "000")
    => caller[r] = "owner"

\* The claimMilestoneReward requests that credited the wallet.
MilestoneClaims ==
  {r \in Reqs : /\ op[r] = "claimMilestoneReward"
                /\ pc[r] \in {"credited", "done"}
                /\ outcome[r] # "rejected"}

\* C26 (milestone rewards): a milestone credits the wallet only when the
\* user's totalReferrals has reached it, at most once per milestone, and only
\* for a milestone of the reward table.
C26_MilestoneOnce ==
  /\ \A r \in MilestoneClaims :
       /\ totalReferrals # NaN /\ totalReferrals >= milestone[r]
       /\ milestone[r] \in {10, 25, 50, 100}
  /\ \A r1, r2 \in MilestoneClaims : milestone[r1] = milestone[r2] => r1 = r2

ProfilesWellFormed(list) ==
  /\ Len(list) <= ProfileLimit
  /\ \A i, j \in DOMAIN list : list[i].phone = list[j].phone => i = j
  /\ \A i, j \in DOMAIN list : i < j => list[i].lastUsed >= list[j].lastUsed

\* C28 (saved passenger profiles): after every addOrUpdateProfile call the
\* document holds at most 10 profiles, no two with the same phone, ordered by
\* lastUsed descending; a call with an existing phone increments that
\* profile's timesUsed by exactly 1, and a call with a new phone adds a
\* profile with timesUsed = 1.
C28_SavedProfiles ==
  [][now' = now =>
       LET phone == profileData'
           before == findIndex(profiles, phone)
           after == findIndex(profiles', phone)
       IN /\ ProfilesWellFormed(profiles')
          /\ after # 0
          /\ after # 0 =>
               profiles'[after].timesUsed =
                 IF before # 0 THEN profiles[before].timesUsed + 1 ELSE 1]_vars
====
